---- MODULE Spec2Model ----
(***************************************************************************)
(* A model of nats.io.client.Client (src/nats/io/client.py): the handshake *)
(* of connect, the command writers (publish, subscribe, unsubscribe), the  *)
(* callbacks the parser's read loop dispatches frames to (_process_ping,   *)
(* _process_pong, _process_msg, _process_err) and last_error.              *)
(*                                                                         *)
(* A command is the sequence of the pieces its format string joins, so     *)
(* that the bytes written are those pieces concatenated in order.  The     *)
(* transport is the sequence of the arguments of io.write, in call order.  *)
(* Python's None is the string "None".                                     *)
(***************************************************************************)
EXTENDS Naturals, Sequences, FiniteSets, TLC

VARIABLES
  options,        \* self.options
  _server_info,   \* self._server_info
  _subs,          \* self._subs: sid -> Subscription
  _ssid,          \* self._ssid
  _err,           \* self._err
  written,        \* the arguments of self.io.write, in call order
  reading,        \* self._ps.read(self.io) has been called
  conn_pc,        \* where the connect coroutine stands
  conn_exc,       \* the exception connect raised, "None" if none
  conn_opts,      \* the opts argument connect was called with
  tried,          \* the addresses io.connect was called with, in call order
  ack_line,       \* the acknowledgment line connect read, <<>> if none
  pubs,           \* the _publish coroutines suspended at a yield
  returned,       \* the sids subscribe returned, in call order
  invoked,        \* sid -> how often that subscription's callback was called
  pings,          \* PING frames dispatched to _process_ping
  msgs,           \* MSG frames dispatched to _process_msg
  dispatch_exc,   \* the exception the last dispatched callback raised
  last_err,       \* the err argument of the last _process_err call
  request_result  \* what the future of the last request call resolved to

vars == <<options, _server_info, _subs, _ssid, _err, written, reading,
          conn_pc, conn_exc, conn_opts, tried, ack_line, pubs, returned,
          invoked, pings, msgs, dispatch_exc, last_err, request_result>>

client  == <<options, _server_info, _subs, _ssid, _err>>
args    == <<conn_opts, tried, ack_line>>
conn    == <<reading, conn_pc, conn_exc, args>>
inbound == <<pings, msgs, dispatch_exc, last_err>>

(***************************************************************************)
(* Bounds of the model: subscribe calls, io.write calls, MSG frames        *)
(* dispatched, PING frames dispatched, and _publish coroutines suspended   *)
(* at the same time.                                                       *)
(***************************************************************************)
MaxSid   == 2
MaxOut   == 5
MaxMsgs  == 2
MaxPings == 1
MaxPubs  == 2

(***************************************************************************)
(* Protocol constants.                                                     *)
(***************************************************************************)
__version__ == "0.0.1"
__lang__    == "python2"
_CRLF_      == "\r\n"
_SPC_       == " "
_EMPTY_     == ""

INFO_OP    == "INFO"
CONNECT_OP == "CONNECT"
PUB_OP     == "PUB"
SUB_OP     == "SUB"
UNSUB_OP   == "UNSUB"
PING_OP    == "PING"
PONG_OP    == "PONG"
OK_OP      == "+OK"
OK         == <<OK_OP, _CRLF_>>
PONG       == <<PONG_OP, _CRLF_>>

(***************************************************************************)
(* The inputs the environment and the caller choose from.                  *)
(***************************************************************************)
Subjects == {"orders"}
Queues   == {"", "workers"}
\* Handlers: "h" returns at once; "h_unsub" calls unsubscribe(msg.sid, 0) on the
\* client that dispatched to it, and returns.
Handlers == {"h", "h_unsub"}
Payloads == {<<>>, <<"x", "y">>}          \* payloads as byte sequences
Replies  == {"inbox"}
Maxes    == {0, 1}
Errs     == {"Authorization Violation", "Unknown Protocol Operation"}

\* The opts dictionaries connect is called with.
Uris     == {[hostname |-> "10.0.0.1", port |-> 4333,
              username |-> "hello", password |-> "world"],
             [hostname |-> "10.0.0.2", port |-> 4222,
              username |-> "None", password |-> "None"]}
OptsSet  == {<<>>, [verbose |-> TRUE]}
              \cup {[servers |-> <<u>>] : u \in Uris}
              \cup {[servers |-> <<u, v>>] : u, v \in Uris}

\* The first line the server sends: INFO with its JSON object, or anything else.
\* JSON text is the sequence of its "key": value pairs, the values as JSON tokens.
InfoLines == {<<INFO_OP, _SPC_, <<>>, _CRLF_>>,
              <<INFO_OP, _SPC_, <<<<"auth_required", "true">>>>, _CRLF_>>,
              <<INFO_OP, _SPC_, <<<<"auth_required", "false">>>>, _CRLF_>>,
              <<"garbage", _CRLF_>>}
AckLines  == {OK, <<"-ERR", _SPC_, "'Authorization Violation'", _CRLF_>>}

Has(d, k) == k \in DOMAIN d
Put(d, k, v) == [x \in DOMAIN d \cup {k} |-> IF x = k THEN v ELSE d[x]]

Init ==
  /\ options = <<>>
  /\ _server_info = <<>>
  /\ _subs = <<>>
  /\ _ssid = 0
  /\ _err = "None"
  /\ written = <<>>
  /\ reading = FALSE
  /\ conn_pc = "new"
  /\ conn_exc = "None"
  /\ conn_opts = <<>>
  /\ tried = <<>>
  /\ ack_line = <<>>
  /\ pubs = <<>>
  /\ returned = <<>>
  /\ invoked = <<>>
  /\ pings = 0
  /\ msgs = 0
  /\ dispatch_exc = "None"
  /\ last_err = "None"
  /\ request_result = "not called"

(***************************************************************************)
(* json.loads and json.dumps(sort_keys=True) on the objects the handshake  *)
(* exchanges.                                                              *)
(***************************************************************************)
json_token(v) ==
  CASE v = TRUE   -> "true"
    [] v = FALSE  -> "false"
    [] OTHER      -> "null"

json_string(s) == IF s = "None" THEN "null" ELSE "\"" \o s \o "\""

json_loads(text) ==
  [k \in {text[i][1] : i \in DOMAIN text} |->
     LET i == CHOOSE j \in DOMAIN text : text[j][1] = k
     IN  text[i][2] = "true"]

\* The keys of CONNECT in sorted order, each with its token when present.
SortedKeys == <<"lang", "pass", "pedantic", "user", "verbose", "version">>

json_dumps(d) ==
  LET keep == SelectSeq(SortedKeys, LAMBDA k : Has(d, k))
  IN  [i \in DOMAIN keep |-> <<keep[i], d[keep[i]]>>]

(***************************************************************************)
(* Client.connect_command                                                  *)
(***************************************************************************)
connect_options(opts, info) ==
  LET base == [verbose  |-> json_token(opts["verbose"]),
               pedantic |-> json_token(opts["pedantic"]),
               lang     |-> json_string(__lang__),
               version  |-> json_string(__version__)]
  IN  IF Has(info, "auth_required")
      THEN Put(Put(base,
             "user", json_string(IF Has(opts, "user") THEN opts["user"] ELSE "None")),
             "pass", json_string(IF Has(opts, "pass") THEN opts["pass"] ELSE "None"))
      ELSE base

connect_command(opts, info) ==
  <<CONNECT_OP, _SPC_, json_dumps(connect_options(opts, info)), _CRLF_>>

(***************************************************************************)
(* Client.send_command: one io.write of the command.                       *)
(***************************************************************************)
send_command(out, cmd) == Append(out, cmd)

(***************************************************************************)
(* Client.connect, one action per suspension point.                        *)
(***************************************************************************)
\* line.split(INFO_OP + _SPC_, 1)
split_info(line) ==
  IF Len(line) >= 2 /\ line[1] = INFO_OP /\ line[2] = _SPC_
  THEN <<"", line[3]>>
  ELSE <<line>>

resolve_options(cur, opts) ==
  LET o1 == Put(cur, "verbose", IF Has(opts, "verbose") THEN opts["verbose"] ELSE FALSE)
      o2 == Put(o1, "pedantic", IF Has(opts, "pedantic") THEN opts["pedantic"] ELSE FALSE)
  IN  IF ~Has(o2, "servers")
      THEN Put(Put(o2, "host", "127.0.0.1"), "port", 4222)
      ELSE LET uri == o2["servers"][1]
               o3  == Put(Put(o2, "host", uri.hostname), "port", uri.port)
               o4  == IF uri.username # "None" THEN Put(o3, "user", uri.username) ELSE o3
           IN  IF uri.password # "None" THEN Put(o4, "pass", uri.password) ELSE o4

\* Lines 46-71: the options are resolved and io.connect is awaited.
ConnectStart(opts) ==
  /\ conn_pc = "new"
  /\ options' = resolve_options(options, opts)
  /\ conn_opts' = opts
  /\ tried' = Append(tried, <<options'["host"], options'["port"]>>)
  /\ conn_pc' = "connecting"
  /\ UNCHANGED <<_server_info, _subs, _ssid, _err, written, reading, conn_exc,
                 ack_line, pubs, returned, invoked, inbound, request_result>>

\* Line 71: the transport is open; read_until(_CRLF_) is awaited.
ConnectOpened ==
  /\ conn_pc = "connecting"
  /\ conn_pc' = "await_info"
  /\ UNCHANGED <<client, written, reading, conn_exc, args, pubs, returned,
                 invoked, inbound, request_result>>

\* Lines 72-74: io.connect raised socket.error.
ConnectRefused ==
  /\ conn_pc = "connecting"
  /\ conn_pc' = "failed"
  /\ conn_exc' = "socket.error"
  /\ UNCHANGED <<client, written, reading, args, pubs, returned, invoked,
                 inbound, request_result>>

\* Lines 78-83: the first line is split and parsed, and CONNECT is written.
ConnectInfo(line) ==
  /\ conn_pc = "await_info"
  /\ LET parts == split_info(line)
     IN  IF Len(parts) # 2
         THEN /\ conn_pc' = "failed"
              /\ conn_exc' = "ValueError"
              /\ UNCHANGED <<_server_info, written>>
         ELSE /\ _server_info' = json_loads(parts[2])
              /\ written' = send_command(written, connect_command(options, _server_info'))
              /\ conn_pc' = "connect_sent"
              /\ UNCHANGED conn_exc
  /\ UNCHANGED <<options, _subs, _ssid, _err, reading, args, pubs, returned,
                 invoked, inbound, request_result>>

\* Lines 92-95: the parser starts reading the stream and PING is written.
start_loop ==
  /\ reading' = TRUE
  /\ written' = send_command(written, <<PING_OP, _CRLF_>>)
  /\ conn_pc' = "ping_sent"
  /\ UNCHANGED conn_exc

\* connect with the parser started before the acknowledgment is awaited.
ConnectSent_loop_first ==
  /\ conn_pc = "connect_sent"
  /\ IF options["verbose"]
     THEN /\ conn_pc' = "await_ack"
          /\ reading' = TRUE
          /\ UNCHANGED <<written, conn_exc>>
     ELSE start_loop
  /\ UNCHANGED <<client, args, pubs, returned, invoked, inbound, request_result>>

\* Lines 83-86: connect resumes after CONNECT was written.
ConnectSent ==
  /\ conn_pc = "connect_sent"
  /\ IF options["verbose"]
     THEN /\ conn_pc' = "await_ack"
          /\ UNCHANGED <<written, reading, conn_exc>>
     ELSE start_loop
  /\ UNCHANGED <<client, args, pubs, returned, invoked, inbound, request_result>>

\* Line 88 with the comparison left out: every line counts as the acknowledgment.
ack_ok_unchecked(line) == TRUE

\* Line 88: result != OK
ack_ok(line) == line = OK

\* Lines 87-95: the acknowledgment line of verbose mode.
ConnectAck(line) ==
  /\ conn_pc = "await_ack"
  /\ ack_line' = line
  /\ IF ~ack_ok(line)
     THEN /\ conn_pc' = "failed"
          /\ conn_exc' = "ErrProtocol"
          /\ UNCHANGED <<written, reading>>
     ELSE start_loop
  /\ UNCHANGED <<client, conn_opts, tried, pubs, returned, invoked, inbound,
                 request_result>>

\* Line 95: connect returns to its caller.
ConnectReturn ==
  /\ conn_pc = "ping_sent"
  /\ conn_pc' = "done"
  /\ UNCHANGED <<client, written, reading, conn_exc, args, pubs, returned,
                 invoked, inbound, request_result>>

\* connect with every opts dictionary and every first line, failures included.
Connect ==
  \/ \E opts \in OptsSet : ConnectStart(opts)
  \/ ConnectOpened
  \/ ConnectRefused
  \/ \E line \in InfoLines : ConnectInfo(line)
  \/ ConnectSent
  \/ \E line \in AckLines : ConnectAck(line)
  \/ ConnectReturn

\* connect() with no opts, answered by a server that sends INFO {}.
ConnectDefault ==
  \/ ConnectStart(<<>>)
  \/ ConnectOpened
  \/ ConnectInfo(<<INFO_OP, _SPC_, <<>>, _CRLF_>>)
  \/ ConnectSent
  \/ ConnectReturn

(***************************************************************************)
(* Subscription.__init__                                                   *)
(***************************************************************************)
Subscription(subject, cb) ==
  [subject |-> subject, callback |-> cb, received |-> 0]

(***************************************************************************)
(* Client.subscribe                                                        *)
(***************************************************************************)
\* The sid counter with the increment of line 163 left out.
next_ssid_forgotten(ssid) == ssid

\* Line 163: self._ssid += 1
next_ssid(ssid) == ssid + 1

\* subscribe with the store of line 167 left out.
register_skipped(subs, sid, sub) == subs

\* Line 167: self._subs[sid] = sub
register(subs, sid, sub) == Put(subs, sid, sub)

\* Line 169
sub_cmd(subject, queue, sid) ==
  <<SUB_OP, _SPC_, subject, _SPC_, queue, ToString(sid), _CRLF_>>

Subscribe(subject, queue, callback) ==
  /\ conn_pc = "done"
  /\ _ssid < MaxSid
  /\ Len(written) < MaxOut
  /\ _ssid' = next_ssid(_ssid)
  /\ LET sid == _ssid'
     IN  /\ _subs' = register(_subs, sid, Subscription(subject, callback))
         /\ written' = send_command(written, sub_cmd(subject, queue, sid))
         /\ returned' = Append(returned, sid)
         /\ invoked' = IF Has(invoked, sid) THEN invoked ELSE Put(invoked, sid, 0)
  /\ UNCHANGED <<options, _server_info, _err, conn, pubs, inbound, request_result>>

(***************************************************************************)
(* Client.unsubscribe                                                      *)
(***************************************************************************)
unsub_cmd(sid, max) ==
  <<UNSUB_OP, _SPC_, ToString(sid), _SPC_, ToString(max), _CRLF_>>

\* unsubscribe deleting the entry under the sid counter instead of under sid.
unsubscribe_registry_last(subs, ssid, sid) == [k \in DOMAIN subs \ {ssid} |-> subs[k]]

\* Lines 180-181: the registry after unsubscribe(sid, max); nothing is assigned.
unsubscribe_registry(subs, ssid, sid) == subs

Unsubscribe(sid, max) ==
  /\ conn_pc = "done"
  /\ Len(written) < MaxOut
  /\ written' = send_command(written, unsub_cmd(sid, max))
  /\ _subs' = unsubscribe_registry(_subs, _ssid, sid)
  /\ UNCHANGED <<options, _server_info, _ssid, _err, conn, pubs, returned,
                 invoked, inbound, request_result>>

(***************************************************************************)
(* Client._publish, publish and publish_request.  _publish yields after    *)
(* each of its three send_command calls; a coroutine suspended there is an *)
(* entry of pubs, and the scheduler resumes any of them.                   *)
(***************************************************************************)
\* The control line with the payload's terminator counted into the size.
pub_cmd_with_crlf(subject, reply, payload) ==
  <<PUB_OP, _SPC_, subject, _SPC_, reply, _SPC_, ToString(Len(payload) + 2), _SPC_, _CRLF_>>

\* Lines 126-127: size = len(payload) and the control line.
pub_cmd(subject, reply, payload) ==
  <<PUB_OP, _SPC_, subject, _SPC_, reply, _SPC_, ToString(Len(payload)), _SPC_, _CRLF_>>

RemoveAt(s, i) == SubSeq(s, 1, i - 1) \o SubSeq(s, i + 1, Len(s))

\* Lines 126-128: the control line is written.
_publish(subject, reply, payload) ==
  /\ conn_pc = "done"
  /\ Len(written) < MaxOut
  /\ Len(pubs) < MaxPubs
  /\ written' = send_command(written, pub_cmd(subject, reply, payload))
  /\ pubs' = Append(pubs, [pc |-> "payload", subject |-> subject,
                           reply |-> reply, payload |-> payload])
  /\ UNCHANGED <<client, conn, returned, invoked, inbound, request_result>>

Publish(subject, payload) == _publish(subject, _EMPTY_, payload)

PublishRequest(subject, reply, payload) == _publish(subject, reply, payload)

\* Line 129: the payload is written.
PublishPayload(i) ==
  /\ pubs[i].pc = "payload"
  /\ Len(written) < MaxOut
  /\ written' = send_command(written, pubs[i].payload)
  /\ pubs' = [pubs EXCEPT ![i].pc = "crlf"]
  /\ UNCHANGED <<client, conn, returned, invoked, inbound, request_result>>

\* Line 130: the trailing CRLF is written and the coroutine ends.
PublishCRLF(i) ==
  /\ pubs[i].pc = "crlf"
  /\ Len(written) < MaxOut
  /\ written' = send_command(written, <<_CRLF_>>)
  /\ pubs' = RemoveAt(pubs, i)
  /\ UNCHANGED <<client, conn, returned, invoked, inbound, request_result>>

(***************************************************************************)
(* Client.request: the body is pass, so the future resolves to None.       *)
(***************************************************************************)
Request(subject, payload) ==
  /\ conn_pc = "done"
  /\ request_result' = "None"
  /\ UNCHANGED <<client, written, conn, pubs, returned, invoked, inbound>>

(***************************************************************************)
(* The callbacks the parser dispatches frames to, once it reads.           *)
(***************************************************************************)
\* Client._process_pong
ProcessPong ==
  /\ reading
  /\ dispatch_exc' = "None"
  /\ UNCHANGED <<client, written, conn, pubs, returned, invoked, pings, msgs,
                 last_err, request_result>>

\* _process_ping with the reply left for later, as _process_pong leaves its PING.
ping_reply_deferred(out) == out

\* Line 198: what _process_ping writes.
ping_reply(out) == send_command(out, PONG)

\* Client._process_ping
ProcessPing ==
  /\ reading
  /\ pings < MaxPings
  /\ Len(written) < MaxOut
  /\ written' = ping_reply(written)
  /\ pings' = pings + 1
  /\ dispatch_exc' = "None"
  /\ UNCHANGED <<client, conn, pubs, returned, invoked, msgs, last_err,
                 request_result>>

\* Line 204: self._subs[msg.sid] raises KeyError for a missing key.
lookup_raises(subs, sid) == ~Has(subs, sid)

\* Client._process_msg; line 205 runs the handler, and with it the unsubscribe
\* call a handler makes, before _process_msg returns.
ProcessMsg(sid) ==
  /\ reading
  /\ msgs < MaxMsgs
  /\ msgs' = msgs + 1
  /\ IF lookup_raises(_subs, sid)
     THEN /\ dispatch_exc' = "KeyError"
          /\ UNCHANGED <<invoked, written, _subs>>
     ELSE /\ invoked' = [invoked EXCEPT ![sid] = @ + 1]
          /\ IF _subs[sid].callback = "h_unsub"
             THEN /\ Len(written) < MaxOut
                  /\ written' = send_command(written, unsub_cmd(sid, 0))
                  /\ _subs' = unsubscribe_registry(_subs, _ssid, sid)
             ELSE UNCHANGED <<written, _subs>>
          /\ dispatch_exc' = "None"
  /\ UNCHANGED <<options, _server_info, _ssid, _err, conn, pubs, returned,
                 pings, last_err, request_result>>

\* The attributes a Client has: those __init__ and connect assign.
ClientAttrs == {"options", "_server_info", "_subs", "_ssid", "_ps", "_err", "io"}

\* Client._process_err: self.nc._err = err
ProcessErr(err) ==
  /\ reading
  /\ last_err' = err
  /\ IF "nc" \in ClientAttrs
     THEN /\ _err' = err
          /\ dispatch_exc' = "None"
     ELSE /\ dispatch_exc' = "AttributeError"
          /\ UNCHANGED _err
  /\ UNCHANGED <<options, _server_info, _subs, _ssid, written, conn, pubs,
                 returned, invoked, pings, msgs, request_result>>

\* Client.last_error
last_error == _err

Calls ==
  \/ \E s \in Subjects, q \in Queues, h \in Handlers : Subscribe(s, q, h)
  \/ \E sid \in 1.._ssid, max \in Maxes : Unsubscribe(sid, max)
  \/ \E s \in Subjects, p \in Payloads : Publish(s, p)
  \/ \E s \in Subjects, r \in Replies, p \in Payloads : PublishRequest(s, r, p)
  \/ \E i \in DOMAIN pubs : PublishPayload(i)
  \/ \E i \in DOMAIN pubs : PublishCRLF(i)
  \/ \E s \in Subjects, p \in Payloads : Request(s, p)

Dispatch ==
  \/ ProcessPong
  \/ ProcessPing
  \/ \E sid \in 1..(_ssid + 1) : ProcessMsg(sid)
  \/ \E err \in Errs : ProcessErr(err)

(***************************************************************************)
(* Spec: a client that connects with the default options and is then       *)
(* called and dispatched to.  SpecHandshake: the handshake with every      *)
(* input, and the frames dispatched once the parser reads.                 *)
(***************************************************************************)
Next == ConnectDefault \/ Calls \/ Dispatch

Spec == Init /\ [][Next]_vars

NextHandshake == Connect \/ Dispatch

SpecHandshake == Init /\ [][NextHandshake]_vars

(***************************************************************************)
(* What the properties read off the state.                                 *)
(***************************************************************************)
\* The first piece of a written command ("" for an empty payload).
Op(cmd) == IF Len(cmd) > 0 THEN cmd[1] ELSE ""

\* unsubscribe(sid, max) has been called: its UNSUB command was written.
UnsubWritten(sid, max) == \E i \in DOMAIN written : written[i] = unsub_cmd(sid, max)

\* The PONG commands written so far.
PongsWritten == Cardinality({i \in DOMAIN written : written[i] = PONG})

\* The fields of the JSON object of the CONNECT command written first.
ConnectFields == {written[1][3][i][1] : i \in DOMAIN written[1][3]}

\* The -ERR messages the protocol classes as fatal.
FatalErrs == {"Authorization Violation", "Stale Connection"}

\* The connection state that a position of connect stands for.
ConnState ==
  CASE conn_pc \in {"new", "failed"}                -> "DISCONNECTED"
    [] conn_pc = "connecting"                       -> "CONNECTING"
    [] conn_pc = "await_info"                       -> "AWAITING_INFO"
    [] conn_pc \in {"connect_sent", "await_ack"}    -> "HANDSHAKING"
    [] conn_pc \in {"ping_sent", "done"}            -> "CONNECTED"

(***************************************************************************)
(* Properties.                                                             *)
(***************************************************************************)
\* C1: the sids subscribe returns are strictly increasing in call order, so
\* none is returned twice, whatever unsubscribe calls come in between.
C1_SidsStrictlyIncreasing ==
  \A i, j \in DOMAIN returned : i < j => returned[i] < returned[j]

\* C1 witness: a second sid was returned right after the first was unsubscribed.
C1_Witness ==
  /\ Len(returned) = 2
  /\ \E i \in DOMAIN written :
       /\ i < Len(written)
       /\ written[i] = unsub_cmd(returned[1], 0)
       /\ Op(written[i + 1]) = SUB_OP

\* C2: once unsubscribe(sid) was called for an immediate unsubscribe (max 0),
\* sid is no longer in the subscription registry.
C2_UnsubscribedLeavesRegistry ==
  \A sid \in 1.._ssid : UnsubWritten(sid, 0) => ~Has(_subs, sid)

\* C3: dispatching a MSG frame whose sid is absent from the registry raises
\* no exception out of the dispatcher.
C3_AbsentSidRaisesNothing == dispatch_exc # "KeyError"

\* C4: every PING frame dispatched has caused exactly one PONG to be written;
\* as this holds in every state, the PONG is there before the next dispatch.
C4_OnePongPerPing == PongsWritten = pings

\* C4 witness: the PONG was written right after the control line of a PUB
\* whose _publish is still suspended.
C4_Witness ==
  /\ pings = 1
  /\ pubs # <<>>
  /\ \E i \in DOMAIN written :
       i > 1 /\ written[i] = PONG /\ Op(written[i - 1]) = PUB_OP

\* C5: the CONNECT command holds a user or a pass field only if ServerInfo
\* declares auth_required true and the client has credentials configured.
C5_CredentialsOnlyWhenRequired ==
  written # <<>> =>
    (("user" \in ConnectFields \/ "pass" \in ConnectFields) =>
       /\ Has(_server_info, "auth_required")
       /\ _server_info["auth_required"]
       /\ Has(options, "user"))

\* C6: after a -ERR frame was dispatched, last_error() returns the err of the
\* most recent one.
C6_LastErrorIsLastErr == last_err # "None" => last_error = last_err

\* C7: a -ERR frame of a fatal class forces the client out of CONNECTED.
C7_FatalErrDisconnects == last_err \in FatalErrs => ConnState # "CONNECTED"

\* C8: each subscription's delivered count (received) equals the number of
\* times its handler was invoked.
C8_ReceivedCountsDeliveries ==
  \A sid \in DOMAIN _subs : _subs[sid].received = invoked[sid]

\* C9: once the handler of a subscription given a maximum by
\* unsubscribe(sid, max) has been invoked max times, it is not invoked again.
C9_AtMostMaxDeliveries ==
  [][\A sid \in DOMAIN _subs : \A max \in Maxes \ {0} :
       (UnsubWritten(sid, max) /\ invoked[sid] >= max)
         => invoked'[sid] = invoked[sid]]_vars

\* C10: a request call that has completed failed with a timeout error or
\* resolved with the reply message.
C10_RequestTimesOutOrReplies ==
  request_result \in {"not called", "TimeoutError", "Msg"}

\* The number of servers connect was configured with (the default is one).
ServerCount ==
  IF Has(conn_opts, "servers") THEN Len(conn_opts["servers"]) ELSE 1

\* C11: a connection error is surfaced only after io.connect was tried on
\* every server of the configured list.
C11_AllServersTriedBeforeError ==
  conn_exc = "socket.error" => Len(tried) = ServerCount

\* C18: when connect is called with a servers option, the address the
\* transport is opened to is the host and port of a URI in that list.
C18_OpensToConfiguredServer ==
  (conn_pc # "new" /\ Has(conn_opts, "servers")) =>
    \E i \in DOMAIN conn_opts["servers"] :
      LET uri == conn_opts["servers"][i]
      IN  /\ options["host"] = uri.hostname
          /\ options["port"] = uri.port
          /\ tried[1] = <<uri.hostname, uri.port>>

\* C12: when the handler dispatched for a MSG on sid calls unsubscribe(sid),
\* the dispatch raises nothing, every other entry of the registry is kept as
\* it was, and the parser goes on reading.
C12_ReentrantUnsubscribeSafe ==
  [][\A sid \in DOMAIN _subs :
       (_subs[sid].callback = "h_unsub" /\ invoked'[sid] = invoked[sid] + 1)
         => /\ dispatch_exc' = "None"
            /\ written' = Append(written, unsub_cmd(sid, 0))
            /\ \A other \in DOMAIN _subs \ {sid} :
                 Has(_subs', other) /\ _subs'[other] = _subs[other]
            /\ reading']_vars

\* C12 witness: a handler that unsubscribes its own sid has run while another
\* subscription was registered.
C12_Witness ==
  /\ Cardinality(DOMAIN _subs) = 2
  /\ msgs >= 1
  /\ dispatch_exc = "None"
  /\ \E sid \in DOMAIN _subs :
       /\ _subs[sid].callback = "h_unsub"
       /\ invoked[sid] >= 1
       /\ written[Len(written)] = unsub_cmd(sid, 0)

\* The fields of a command line as the wire grammar reads them: the bytes
\* between runs of spaces, up to the CRLF.
RECURSIVE TokensFrom(_, _, _)
TokensFrom(cmd, i, cur) ==
  LET done == IF cur = "" THEN <<>> ELSE <<cur>>
  IN  IF i > Len(cmd) THEN done
      ELSE IF cmd[i] = _SPC_ \/ cmd[i] = _CRLF_
           THEN done \o TokensFrom(cmd, i + 1, "")
           ELSE TokensFrom(cmd, i + 1, cur \o cmd[i])

Tokens(cmd) == TokensFrom(cmd, 1, "")

\* The sids subscribe has handed out, as they are written on the wire.
SidTokens == {ToString(n) : n \in 1.._ssid}

\* C13: every SUB command written has the fields SUB, subject, the queue
\* group only when one is given, and the sid as a field of its own.
C13_SubFields ==
  \A i \in DOMAIN written :
    Op(written[i]) = SUB_OP =>
      LET t == Tokens(written[i])
      IN  /\ Len(t) \in {3, 4}
          /\ t[1] = SUB_OP
          /\ t[2] \in Subjects
          /\ Len(t) = 4 => t[3] \in Queues \ {""}
          /\ t[Len(t)] \in SidTokens
          /\ written[i][Len(written[i])] = _CRLF_

\* The fields the control line of a _publish call must have.
PubFields(p) ==
  <<PUB_OP, p.subject>> \o (IF p.reply = "" THEN <<>> ELSE <<p.reply>>)
    \o <<ToString(Len(p.payload))>>

\* C14: the control line of every _publish under way has the fields PUB,
\* subject, the reply-to only when given, and the number of bytes of the
\* payload that call writes, and ends in CRLF; the payload it has written
\* is that payload.
C14_PubFrame ==
  \A k \in DOMAIN pubs :
    \E i \in DOMAIN written :
      /\ Op(written[i]) = PUB_OP
      /\ Tokens(written[i]) = PubFields(pubs[k])
      /\ written[i][Len(written[i])] = _CRLF_
      /\ pubs[k].pc = "crlf" =>
           \E j \in DOMAIN written : j > i /\ written[j] = pubs[k].payload

\* C14 witness: a publish_request of the empty payload has written its
\* control line and its payload.
C14_Witness ==
  \E k \in DOMAIN pubs :
    pubs[k].pc = "crlf" /\ pubs[k].payload = <<>> /\ pubs[k].reply # ""

\* C19: every sid whose SUB command has been written has a registry entry
\* for the subject of that command.
C19_RegisteredBeforeSub ==
  \A i \in DOMAIN written :
    Op(written[i]) = SUB_OP =>
      \E sid \in DOMAIN _subs : \E q \in Queues :
        written[i] = sub_cmd(_subs[sid].subject, q, sid)

\* C19 witness: a MSG for a subscribed sid was dispatched to its handler.
C19_Witness ==
  /\ \E i \in DOMAIN written : Op(written[i]) = SUB_OP
  /\ \E sid \in DOMAIN _subs : invoked[sid] >= 1
  /\ dispatch_exc = "None"

C15_InfoBeforeAnyWrite ==
  /\ written # <<>> =>
       /\ Op(written[1]) = CONNECT_OP
       /\ conn_pc \notin {"new", "connecting", "await_info"}
  /\ (conn_pc = "failed" /\ conn_exc # "socket.error" /\ written = <<>>)
       => conn_exc = "ErrProtocol"

\* The initial PING has been written.
PingWritten == \E i \in DOMAIN written : written[i] = <<PING_OP, _CRLF_>>

\* C16: while the parser reads the stream, connect is past its handshake
\* reads (the INFO line and the acknowledgment line), and the initial PING
\* is written only once the parser reads.
C16_HandshakeReadsBeforeLoop ==
  /\ reading => conn_pc \in {"ping_sent", "done"}
  /\ PingWritten => reading

\* C16 witness: a verbose handshake has read both lines, started the parser
\* and written the PING.
C16_Witness ==
  options # <<>> /\ options["verbose"] /\ ack_line = OK /\ reading /\ PingWritten

\* C17: without verbose no acknowledgment line is read; with verbose the
\* parser is started only after the line +OK was read, and any other line
\* fails connect with a protocol error, the parser not started.
C17_VerboseAck ==
  /\ (options # <<>> /\ ~options["verbose"]) => ack_line = <<>>
  /\ (options # <<>> /\ options["verbose"] /\ reading) => ack_line = OK
  /\ ack_line = OK => (reading /\ conn_pc \in {"ping_sent", "done"})
  /\ (ack_line # <<>> /\ ack_line # OK)
       => (~reading /\ conn_pc = "failed" /\ conn_exc = "ErrProtocol")

\* C17 witness: a verbose connect has returned after reading +OK.
C17_Witness == ack_line = OK /\ conn_pc = "done" /\ reading

====
